---------------------------- MODULE Spec2Model ----------------------------
(***************************************************************************)
(* Model of VolETPs_CorrSignals/main.py (class VolETPsCorrSignals):        *)
(*   - _get_cor_value_hourly : point lookup in an hourly series            *)
(*   - _update_regime        : rolling statistics + regime classifier      *)
(*   - _execute_trades       : single-position execution state machine     *)
(*   - on_data               : the per-tick pipeline and its bookkeeping   *)
(*                                                                         *)
(* Numbers.  Spreads and prices are integers.  The rolling mean is kept    *)
(* as the exact fraction <<num, den>>; the rolling standard deviation is   *)
(* kept as <<vn, vd>>, standing for sqrt(vn / vd), so that every           *)
(* comparison the code makes against k * spread_std is decided exactly by  *)
(* comparing squares.  Python's None is the empty tuple.                   *)
(*                                                                         *)
(* Timestamps.  An ISO key "YYYY-MM-DDTHH:MM:00" is the triple             *)
(* <<day, hour, minute>>, days being consecutive integers.                 *)
(***************************************************************************)
EXTENDS Integers, Sequences, FiniteSets, TLC

VARIABLES
    SPREAD_MA_WINDOW,    \* self.SPREAD_MA_WINDOW (attribute, fixed after initialize)
    spread_history,      \* self.spread_history
    regime_current,      \* self.regime_current
    regime_previous,     \* self.regime_previous
    regime_bar_count,    \* self.regime_bar_count
    spread_ma,           \* self.spread_ma   : None or <<num, den>>
    spread_std,          \* self.spread_std  : None or <<vn, vd>> = sqrt(vn/vd)
    is_short,            \* self.is_short
    entry_price,         \* self.entry_price
    bars_since_exit,     \* self.bars_since_exit
    bars_since_entry,    \* self.bars_since_entry
    trade_count,         \* self.trade_count
    blocked_entry_count, \* self.blocked_entry_count
    cor_hourly_dict,     \* a loaded hourly series: key -> close
                         \* (self.cor1m_hourly_data in on_data)
    cor3m_hourly_data,   \* self.cor3m_hourly_data
    time,                \* self.time of the tick being processed
    cor_val,             \* result of the last _get_cor_value_hourly call
                         \* (cor1m_val in on_data)
    cor3m_val,           \* local cor3m_val of the last on_data call
    last_missing_cor_warning_date,  \* day of the last WARN, NoDate if none
    regime_candidate,    \* local regime_candidate of the last _update_regime call
    spread,              \* argument spread of the last call
    vxx_price,           \* argument vxx_price of the last call
    events,              \* audit records emitted (self.debug) by the last call
    orders,              \* orders sent to the venue so far, in order
    ticks,               \* number of calls made so far
    last_exit_tick,      \* number of the call that last closed a position, 0 if none
    last_entry_tick,     \* number of the call that last opened a position, 0 if none
                         \* or if the position was open when the run started
    error,               \* None, or the exception that ended the run
    pc                   \* which operation ran last

vars == <<SPREAD_MA_WINDOW, spread_history, regime_current, regime_previous,
          regime_bar_count, spread_ma, spread_std, is_short, entry_price,
          bars_since_exit, bars_since_entry, trade_count, blocked_entry_count,
          cor_hourly_dict, time, cor_val, regime_candidate, spread, vxx_price,
          events, orders, ticks, error, pc, cor3m_hourly_data, cor3m_val,
          last_missing_cor_warning_date, last_exit_tick, last_entry_tick>>

regimeVars == <<spread_history, regime_current, regime_previous,
                regime_bar_count, spread_ma, spread_std>>
positionVars == <<is_short, entry_price, bars_since_exit, bars_since_entry,
                  trade_count, blocked_entry_count>>
lookupVars == <<cor_hourly_dict, time, cor_val>>
feedVars == <<cor3m_hourly_data, cor3m_val, last_missing_cor_warning_date>>

-----------------------------------------------------------------------------
(* Bounds of the model *)

MaxWindow == 4      \* window sizes 3..MaxWindow are explored
MaxFeeds == 10      \* direct _update_regime calls per run
MaxTicks == 4       \* decision ticks per run
MaxDay == 11        \* days are 0..MaxDay
MaxSamples == 2     \* samples in a loaded series

Windows == 3..MaxWindow
Spreads == {0, 5, 10}
Prices == {10, 13}
Days == 0..MaxDay
SampleHours == {10, 15}
Minutes == {0, 30}

-----------------------------------------------------------------------------
(* Program constants *)

REGIME_SAFE == "SAFE"
REGIME_NEUTRAL == "NEUTRAL"
REGIME_DANGER == "DANGER"
Regimes == {REGIME_SAFE, REGIME_NEUTRAL, REGIME_DANGER}

REGIME_PERSISTENCE_BARS == 2
SHOCK_THRESHOLD_MULT == <<5, 2>>           \* 2.5
COOLDOWN_BARS == 2
SIGNAL_STD_THRESHOLD == <<1, 1>>           \* 1.0
STOP_LOSS_MULT == 2                        \* 2.0
EXIT_MEAN_REVERT_THRESHOLD == <<1, 2>>     \* 0.5
vxx_atr_estimate == 1                      \* 1.0, never reassigned
HistorySlack == 5                          \* SPREAD_MA_WINDOW + 5
STD_FLOOR == <<1, 10000>>                  \* 0.01 = sqrt(1/10000)
LookbackDays == 10                         \* range(1, 11)

None == << >>
NoDate == -1                               \* last_missing_cor_warning_date = None

-----------------------------------------------------------------------------
(* Arithmetic helpers *)

Abs(x) == IF x < 0 THEN -x ELSE x

RECURSIVE SeqSum(_)
SeqSum(s) == IF s = << >> THEN 0 ELSE Head(s) + SeqSum(Tail(s))

RECURSIVE SqDevSum(_, _, _)
\* sum of (n*x - total)^2 over the elements x of s
SqDevSum(s, n, total) ==
    IF s = << >> THEN 0
    ELSE (n * Head(s) - total) * (n * Head(s) - total) + SqDevSum(Tail(s), n, total)

\* x > (k[1]/k[2]) * sqrt(sd[1]/sd[2]) for the fraction x = n/d, d > 0
GtStd(n, d, k, sd) ==
    /\ n > 0
    /\ n * n * k[2] * k[2] * sd[2] > k[1] * k[1] * sd[1] * d * d

\* |x| < (k[1]/k[2]) * sqrt(sd[1]/sd[2]) for the fraction x = n/d, d > 0
AbsLtStd(n, d, k, sd) ==
    n * n * k[2] * k[2] * sd[2] < k[1] * k[1] * sd[1] * d * d

-----------------------------------------------------------------------------
(* _get_cor_value_hourly *)

current_date(t) == t[1]
HourKey(day, hour) == <<day, hour, 0>>      \* f"{date}T{hour:02d}:00:00"

HasHour(dict, day) == \E h \in 0..23 : HourKey(day, h) \in DOMAIN dict

\* mutant: the hours are scanned upwards, the earliest hour wins
LastHourOf_earliest(dict, day) ==
    CHOOSE h \in 0..23 :
        /\ <<day, h, 0>> \in DOMAIN dict
        /\ \A g \in 0..23 : <<day, g, 0>> \in DOMAIN dict => h <= g

\* for hour in range(23, -1, -1): the first key found is the latest hour
LastHourOf(dict, day) ==
    CHOOSE h \in 0..23 :
        /\ HourKey(day, h) \in DOMAIN dict
        /\ \A g \in 0..23 : HourKey(day, g) \in DOMAIN dict => g <= h

\* for day_offset in range(1, 11): the first day found is the most recent
PriorDayWithData(dict, day) ==
    CHOOSE o \in 1..LookbackDays :
        /\ HasHour(dict, day - o)
        /\ \A p \in 1..LookbackDays : HasHour(dict, day - p) => o <= p

SameDayFallback(dict, t) ==
    <<dict[HourKey(current_date(t), LastHourOf(dict, current_date(t)))]>>

get_cor_value_hourly(dict, t) ==
    IF t \in DOMAIN dict THEN <<dict[t]>>
    ELSE IF HasHour(dict, current_date(t)) THEN SameDayFallback(dict, t)
    ELSE IF \E o \in 1..LookbackDays : HasHour(dict, current_date(t) - o)
         THEN LET d == current_date(t) - PriorDayWithData(dict, current_date(t))
              IN  <<dict[HourKey(d, LastHourOf(dict, d))]>>
    ELSE None

-----------------------------------------------------------------------------
(* _update_regime *)

NoEvent == << >>

Event(tag, old, new, reason, bars) ==
    [tag |-> tag, old |-> old, new |-> new, reason |-> reason, bars |-> bars,
     blocked_by |-> << >>]

\* mutant: the oldest spread is evicted as soon as the buffer is full
append_spread_evicts_early(h, w, s) ==
    LET a == Append(h, s)
    IN  IF Len(a) >= w + HistorySlack THEN Tail(a) ELSE a

\* self.spread_history.append(spread); pop(0) when longer than window + 5
append_spread(h, w, s) ==
    LET a == Append(h, s)
    IN  IF Len(a) > w + HistorySlack THEN Tail(a) ELSE a

\* mutant: the statistics are taken over the whole buffer
recent_spreads_whole_buffer(h, w) == h

\* self.spread_history[-self.SPREAD_MA_WINDOW:]
recent_spreads(h, w) == SubSeq(h, Len(h) - w + 1, Len(h))

\* sum(recent_spreads) / len(recent_spreads)
rolling_mean(recent) == <<SeqSum(recent), Len(recent)>>

\* variance ** 0.5 if variance > 0 else 0.01, with
\* variance = sum((x - ma)^2) / n = sum((n*x - total)^2) / n^3
rolling_std(recent) ==
    LET n == Len(recent)
        q == SqDevSum(recent, n, SeqSum(recent))
    IN  IF q > 0 THEN <<q, n * n * n>> ELSE STD_FLOOR

\* len(history) >= 2 and abs(spread - history[-2]) > std * 2.5 and std > 0
shock_detected(h, s, sd) ==
    /\ Len(h) >= 2
    /\ GtStd(Abs(s - h[Len(h) - 1]), 1, SHOCK_THRESHOLD_MULT, sd)
    /\ sd[1] > 0

\* distance_from_ma = spread - spread_ma, compared with -std and +std
select_candidate(s, ma, sd) ==
    LET n == s * ma[2] - ma[1]
        d == ma[2]
    IN  IF GtStd(-n, d, <<1, 1>>, sd) THEN REGIME_SAFE
        ELSE IF GtStd(n, d, <<1, 1>>, sd) THEN REGIME_DANGER
        ELSE REGIME_NEUTRAL

candidate_reason(c) ==
    IF c = REGIME_SAFE THEN "spread_below_MA-1std"
    ELSE IF c = REGIME_DANGER THEN "spread_above_MA+1std"
    ELSE "spread_within_bands"

\* persistence rule
next_bar_count(candidate, current, count) ==
    IF candidate = current THEN count + 1 ELSE 1

\* mutant: one bar of persistence is enough
commit_condition_one_bar(count, candidate, previous) ==
    /\ count >= 1
    /\ candidate # previous

\* regime transition if persistence threshold met
commit_condition(count, candidate, previous) ==
    /\ count >= REGIME_PERSISTENCE_BARS
    /\ candidate # previous

\* The regime fields of self, as _update_regime reads them
RegimeSelf ==
    [SPREAD_MA_WINDOW |-> SPREAD_MA_WINDOW, spread_history |-> spread_history,
     regime_current |-> regime_current, regime_previous |-> regime_previous,
     regime_bar_count |-> regime_bar_count, spread_ma |-> spread_ma,
     spread_std |-> spread_std, regime_candidate |-> "NONE", events |-> NoEvent]

\* mutant: the shock resets the bar count but leaves the regime to persistence
shock_branch_keeps_regime(r) ==
    [r EXCEPT !.regime_bar_count = 1,
              !.events = <<[tag |-> "SHOCK", old |-> "", new |-> "", reason |-> "",
                            bars |-> 0, blocked_by |-> << >>]>>]

\* the shock branch: force DANGER, count 1, return
shock_branch(r) ==
    [r EXCEPT !.regime_current = REGIME_DANGER,
              !.regime_bar_count = 1,
              !.events = <<Event("SHOCK", "", "", "", 0)>>]

\* candidate selection, persistence rule and commit
classify_branch(r, s) ==
    LET c == select_candidate(s, r.spread_ma, r.spread_std)
        n == next_bar_count(c, r.regime_current, r.regime_bar_count)
    IN  IF commit_condition(n, c, r.regime_previous)
        THEN [r EXCEPT !.regime_candidate = c,
                       !.regime_previous = r.regime_current,
                       !.regime_current = c,
                       !.regime_bar_count = 0,
                       !.events = <<Event("REGIME", r.regime_current, c,
                                          candidate_reason(c), n)>>]
        ELSE [r EXCEPT !.regime_candidate = c, !.regime_bar_count = n]

\* mutant: the statistics wait for one spread more than the window
insufficient_history_one_more(h, w) == Len(h) <= w

\* need minimum window to compute stats
insufficient_history(h, w) == Len(h) < w

\* _update_regime(spread, ...) applied to the regime fields r
update_regime(r, s) ==
    LET h == append_spread(r.spread_history, r.SPREAD_MA_WINDOW, s)
        r1 == [r EXCEPT !.spread_history = h]
    IN  IF insufficient_history(h, r.SPREAD_MA_WINDOW) THEN r1
        ELSE LET recent == recent_spreads(h, r.SPREAD_MA_WINDOW)
                 r2 == [r1 EXCEPT !.spread_ma = rolling_mean(recent),
                                  !.spread_std = rolling_std(recent)]
             IN  IF shock_detected(h, s, r2.spread_std)
                 THEN shock_branch(r2)
                 ELSE classify_branch(r2, s)

-----------------------------------------------------------------------------
(* _execute_trades *)

\* spread_ma - spread > SIGNAL_STD_THRESHOLD * spread_std
signal_strength_ok(s, ma, sd) ==
    GtStd(ma[1] - s * ma[2], ma[2], SIGNAL_STD_THRESHOLD, sd)

\* max(0, COOLDOWN_BARS - bars_since_exit)
cooldown_remaining(bse) ==
    IF COOLDOWN_BARS - bse > 0 THEN COOLDOWN_BARS - bse ELSE 0

regime_ok(regime) == regime = REGIME_SAFE

cooldown_ok(bse) == cooldown_remaining(bse) = 0

\* mutant: the entry logic runs whether or not a position is open
in_entry_logic_always(short) == TRUE

\* the branch "if not self.is_short" is the entry logic, else the exit logic
in_entry_logic(short) == ~short

\* mutant: the cooldown is not part of the entry test
entry_allowed_no_cooldown(rok, sok, cok) == rok /\ sok

\* if regime_ok and signal_strength_ok and cooldown_ok
entry_allowed(rok, sok, cok) == rok /\ sok /\ cok

\* mutant: the stop test comes before the normalisation test
exit_reason_stop_first(regime, s, ma, sd, price, entry) ==
    IF regime = REGIME_DANGER THEN "REGIME_REVOKED"
    ELSE IF vxx_atr_estimate > 0 /\ price > entry + vxx_atr_estimate * STOP_LOSS_MULT
         THEN "STOP_HIT"
    ELSE IF AbsLtStd(s * ma[2] - ma[1], ma[2], EXIT_MEAN_REVERT_THRESHOLD, sd)
         THEN "SIGNAL_NORMALIZED"
    ELSE "NONE"

\* mutant: the stop test uses an estimate that has doubled
exit_reason_wider_stop(regime, s, ma, sd, price, entry) ==
    IF regime = REGIME_DANGER THEN "REGIME_REVOKED"
    ELSE IF AbsLtStd(s * ma[2] - ma[1], ma[2], EXIT_MEAN_REVERT_THRESHOLD, sd)
         THEN "SIGNAL_NORMALIZED"
    ELSE IF vxx_atr_estimate > 0
            /\ price > entry + (vxx_atr_estimate + vxx_atr_estimate) * STOP_LOSS_MULT
         THEN "STOP_HIT"
    ELSE "NONE"

\* mutant: a DANGER regime does not close the position
exit_reason_no_revoke(regime, s, ma, sd, price, entry) ==
    IF AbsLtStd(s * ma[2] - ma[1], ma[2], EXIT_MEAN_REVERT_THRESHOLD, sd)
    THEN "SIGNAL_NORMALIZED"
    ELSE IF vxx_atr_estimate > 0 /\ price > entry + vxx_atr_estimate * STOP_LOSS_MULT
         THEN "STOP_HIT"
    ELSE "NONE"

\* the if / elif / elif chain choosing exit_reason ("NONE" is Python's None)
exit_reason(regime, s, ma, sd, price, entry) ==
    IF regime = REGIME_DANGER THEN "REGIME_REVOKED"
    ELSE IF AbsLtStd(s * ma[2] - ma[1], ma[2], EXIT_MEAN_REVERT_THRESHOLD, sd)
         THEN "SIGNAL_NORMALIZED"
    ELSE IF vxx_atr_estimate > 0 /\ price > entry + vxx_atr_estimate * STOP_LOSS_MULT
         THEN "STOP_HIT"
    ELSE "NONE"

\* mutant: only the regime is given as a reason
block_reasons_regime_only(rok, cok) ==
    IF ~rok THEN <<"regime">> ELSE << >>

\* block_reasons of a blocked entry; << >> would be logged as "unknown"
block_reasons(rok, cok) ==
    (IF ~rok THEN <<"regime">> ELSE << >>) \o
    (IF ~cok THEN <<"cooldown_rem">> ELSE << >>)

\* mutant: the bar of the entry is not counted
bars_held_one_less(bse) == IF bse > 1 THEN bse - 1 ELSE 1

\* bars_held = bars_since_entry if bars_since_entry > 0 else 1
bars_held(bse) == IF bse > 0 THEN bse ELSE 1

\* The position fields of self, as _execute_trades reads them
PositionSelf ==
    [is_short |-> is_short, entry_price |-> entry_price,
     bars_since_exit |-> bars_since_exit, bars_since_entry |-> bars_since_entry,
     trade_count |-> trade_count, blocked_entry_count |-> blocked_entry_count,
     events |-> NoEvent, orders |-> orders, error |-> "NONE"]

\* mutant: the entry does not count the trade
enter_short_uncounted(x, r, price) ==
    [x EXCEPT !.is_short = TRUE,
              !.entry_price = price,
              !.bars_since_entry = 1,
              !.orders = Append(x.orders, "set_holdings"),
              !.error = "TypeError"]

\* The entry: the order is sent and the position fields are assigned, then
\* the call self._log_entry(..., self.regime_current, "...", cooldown_rem=...,
\* signal_dist=..., regime=regime_ok) passes regime both by position and by
\* keyword: Python raises TypeError before anything is logged, and the
\* exception leaves _execute_trades and on_data.
enter_short(x, r, price) ==
    [x EXCEPT !.is_short = TRUE,
              !.entry_price = price,
              !.bars_since_entry = 1,
              !.trade_count = x.trade_count + 1,
              !.orders = Append(x.orders, "set_holdings"),
              !.error = "TypeError"]

log_blocked(x, r, rok, cok) ==
    [x EXCEPT !.blocked_entry_count = x.blocked_entry_count + 1,
              !.events = <<[Event("BLOCK", "", "",
                                  IF block_reasons(rok, cok) = << >>
                                  THEN "unknown" ELSE "blocked", 0)
                            EXCEPT !.blocked_by = block_reasons(rok, cok)]>>]

\* mutant: the exit does not restart the cooldown
exit_short_keeps_cooldown(x, reason) ==
    [x EXCEPT !.is_short = FALSE,
              !.orders = Append(x.orders, "liquidate"),
              !.events = <<Event("EXIT", "", "", reason,
                                 bars_held(x.bars_since_entry))>>]

\* the exit: liquidate, log, reset the position fields
exit_short(x, reason) ==
    [x EXCEPT !.is_short = FALSE,
              !.bars_since_exit = 0,
              !.orders = Append(x.orders, "liquidate"),
              !.events = <<Event("EXIT", "", "", reason,
                                 bars_held(x.bars_since_entry))>>]

\* _execute_trades(spread, vxx_price, ...) applied to the position fields x,
\* reading the regime fields r that _update_regime left; spread_ma is defined
execute_trades(x, r, s, price) ==
    LET sok == signal_strength_ok(s, r.spread_ma, r.spread_std)
        rok == regime_ok(r.regime_current)
        cok == cooldown_ok(x.bars_since_exit)
    IN  IF in_entry_logic(x.is_short)
        THEN IF entry_allowed(rok, sok, cok) THEN enter_short(x, r, price)
             ELSE IF sok THEN log_blocked(x, r, rok, cok)
             ELSE x
        ELSE LET reason == exit_reason(r.regime_current, s, r.spread_ma,
                                       r.spread_std, price, x.entry_price)
             IN  IF reason # "NONE" THEN exit_short(x, reason) ELSE x

\* mutant: the cooldown counter is not capped
bookkeeping_uncapped(x) ==
    [x EXCEPT !.bars_since_entry =
                  IF x.bars_since_entry >= 1 THEN x.bars_since_entry + 1
                  ELSE x.bars_since_entry,
              !.bars_since_exit = x.bars_since_exit + 1]

\* on_data, step 3: the per-tick bookkeeping
bookkeeping(x) ==
    [x EXCEPT !.bars_since_entry =
                  IF x.bars_since_entry >= 1 THEN x.bars_since_entry + 1
                  ELSE x.bars_since_entry,
              !.bars_since_exit =
                  IF x.bars_since_exit < COOLDOWN_BARS THEN x.bars_since_exit + 1
                  ELSE x.bars_since_exit]

-----------------------------------------------------------------------------
(* State after initialize() *)

EmptySeries == [k \in {} |-> 0]

InitPosition ==
    /\ is_short = FALSE
    /\ entry_price = 0
    /\ bars_since_exit = 0
    /\ bars_since_entry = 0
    /\ trade_count = 0
    /\ orders = << >>

InitFields ==
    /\ regime_previous = REGIME_NEUTRAL
    /\ regime_bar_count = 0
    /\ spread_ma = None
    /\ spread_std = None
    /\ blocked_entry_count = 0
    /\ cor_val = None
    /\ cor3m_val = None
    /\ last_missing_cor_warning_date = NoDate
    /\ last_exit_tick = 0
    /\ last_entry_tick = 0
    /\ regime_candidate = "NONE"
    /\ spread = 0
    /\ vxx_price = 0
    /\ events = NoEvent
    /\ ticks = 0
    /\ error = "NONE"
    /\ pc = "init"

Init ==
    /\ SPREAD_MA_WINDOW \in Windows
    /\ spread_history = << >>
    /\ cor_hourly_dict = EmptySeries
    /\ cor3m_hourly_data = EmptySeries
    /\ time = <<0, 10, 0>>
    /\ regime_current = REGIME_NEUTRAL
    /\ InitPosition
    /\ InitFields

-----------------------------------------------------------------------------
(* Operations *)

\* A direct call self._update_regime(s, ...)
UpdateRegimeCall(s) ==
    /\ ticks < MaxFeeds
    /\ error = "NONE"
    /\ \E r \in {update_regime(RegimeSelf, s)} :
           /\ spread_history' = r.spread_history
           /\ regime_current' = r.regime_current
           /\ regime_previous' = r.regime_previous
           /\ regime_bar_count' = r.regime_bar_count
           /\ spread_ma' = r.spread_ma
           /\ spread_std' = r.spread_std
           /\ regime_candidate' = r.regime_candidate
           /\ events' = r.events
    /\ spread' = s
    /\ ticks' = ticks + 1
    /\ pc' = "update_regime"
    /\ UNCHANGED <<SPREAD_MA_WINDOW, positionVars, lookupVars, feedVars,
                   vxx_price, orders, error, last_exit_tick,
                   last_entry_tick>>

\* on_data from the spread on: steps 1 to 3.  In _execute_trades,
\* spread_ma - spread raises TypeError while spread_ma is still None, and an
\* entry raises TypeError in its log call; an exception skips the rest of the
\* tick and ends the run.
DecisionSteps(s, price) ==
    /\ \E r \in {update_regime(RegimeSelf, s)} :
       \E e \in {IF r.spread_ma = None
                 THEN [PositionSelf EXCEPT !.error = "TypeError"]
                 ELSE execute_trades(PositionSelf, r, s, price)} :
       \E x \in {IF e.error = "NONE" THEN bookkeeping(e) ELSE e} :
           /\ spread_history' = r.spread_history
           /\ regime_current' = r.regime_current
           /\ regime_previous' = r.regime_previous
           /\ regime_bar_count' = r.regime_bar_count
           /\ spread_ma' = r.spread_ma
           /\ spread_std' = r.spread_std
           /\ regime_candidate' = r.regime_candidate
           /\ is_short' = x.is_short
           /\ entry_price' = x.entry_price
           /\ bars_since_exit' = x.bars_since_exit
           /\ bars_since_entry' = x.bars_since_entry
           /\ trade_count' = x.trade_count
           /\ blocked_entry_count' = x.blocked_entry_count
           /\ orders' = x.orders
           /\ events' = r.events \o x.events
           /\ error' = x.error
           /\ last_exit_tick' = IF is_short /\ ~x.is_short THEN ticks + 1
                                 ELSE last_exit_tick
           /\ last_entry_tick' = IF ~is_short /\ x.is_short THEN ticks + 1
                                  ELSE last_entry_tick
    /\ spread' = s
    /\ vxx_price' = price
    /\ pc' = "on_data"

\* on_data once both correlation values are available, their spread being s
DecisionTick(s, price) ==
    /\ ticks < MaxTicks
    /\ error = "NONE"
    /\ DecisionSteps(s, price)
    /\ ticks' = ticks + 1
    /\ UNCHANGED <<SPREAD_MA_WINDOW, lookupVars, feedVars>>

\* the bar after the one stamped t: two bars a day, at the sample hours
NextBar(t) == IF t[2] < 15 THEN <<t[1], 15, 0>> ELSE <<t[1] + 1, 10, 0>>

cor_missing(v1, v3) == v1 = None \/ v3 = None

\* mutant: the missing-data tick still runs step 3
on_missing_data_runs_bookkeeping(x) == bookkeeping(x)

\* the return that ends a missing-data tick: nothing after it runs, the
\* position fields keep their values
on_missing_data(x) == x

\* on_data(data) for the next bar; price <= 0 stands for a slice without a
\* usable VXX close
OnData(price) ==
    /\ ticks < MaxTicks
    /\ error = "NONE"
    /\ NextBar(time)[1] <= MaxDay
    /\ time' = NextBar(time)
    /\ ticks' = ticks + 1
    /\ IF price <= 0
       THEN /\ pc' = "no_bar"
            /\ events' = NoEvent
            /\ UNCHANGED <<regimeVars, positionVars, orders, error, cor_val,
                           cor3m_val, last_missing_cor_warning_date,
                           regime_candidate, spread, vxx_price, last_exit_tick,
                           last_entry_tick>>
       ELSE \E v1 \in {get_cor_value_hourly(cor_hourly_dict, time')},
               v3 \in {get_cor_value_hourly(cor3m_hourly_data, time')} :
            /\ cor_val' = v1
            /\ cor3m_val' = v3
            /\ IF cor_missing(v1, v3)
               THEN /\ last_missing_cor_warning_date' = current_date(time')
                    /\ events' =
                         IF last_missing_cor_warning_date # current_date(time')
                         THEN <<Event("WARN", "NONE", "NONE", "missing COR data", 0)>>
                         ELSE NoEvent
                    /\ \E x \in {on_missing_data(PositionSelf)} :
                           /\ is_short' = x.is_short
                           /\ entry_price' = x.entry_price
                           /\ bars_since_exit' = x.bars_since_exit
                           /\ bars_since_entry' = x.bars_since_entry
                           /\ trade_count' = x.trade_count
                           /\ blocked_entry_count' = x.blocked_entry_count
                           /\ orders' = x.orders
                           /\ error' = x.error
                    /\ pc' = "missing_data"
                    /\ UNCHANGED <<regimeVars, regime_candidate, spread,
                                   vxx_price, last_exit_tick, last_entry_tick>>
               ELSE /\ DecisionSteps(v1[1] - v3[1], price)
                    /\ UNCHANGED last_missing_cor_warning_date
    /\ UNCHANGED <<SPREAD_MA_WINDOW, cor_hourly_dict, cor3m_hourly_data>>

\* A call self._get_cor_value_hourly(series, current_date, current_hour_iso)
LookupCall ==
    /\ pc = "init"
    /\ cor_val' = get_cor_value_hourly(cor_hourly_dict, time)
    /\ pc' = "lookup"
    /\ UNCHANGED <<SPREAD_MA_WINDOW, regimeVars, positionVars, cor_hourly_dict,
                   time, regime_candidate, spread, vxx_price, events, orders,
                   ticks, error, feedVars, last_exit_tick, last_entry_tick>>

-----------------------------------------------------------------------------
(* Specifications *)

\* The classifier driven by an arbitrary spread series from the constructed
\* state.
NextRegime == \E s \in Spreads : UpdateRegimeCall(s)

SpecRegime == Init /\ [][NextRegime]_vars

\* The execution layer driven by decision ticks.  The state of the object is
\* an input of _execute_trades: the run starts with any regime held, with the
\* window one sample short of full so that the first tick defines the rolling
\* statistics, and with the position either as constructed or as an entry
\* leaves it (is_short set, the entry price recorded, bars_since_entry 1,
\* one trade counted, the cooldown elapsed, one order sent).
RECURSIVE SeqsOfLen(_, _)
SeqsOfLen(S, n) ==
    IF n = 0 THEN {<< >>}
    ELSE {Append(q, e) : q \in SeqsOfLen(S, n - 1), e \in S}

InitOpenPosition ==
    /\ is_short = TRUE
    /\ entry_price \in Prices
    /\ bars_since_exit = COOLDOWN_BARS
    /\ bars_since_entry = 1
    /\ trade_count = 1
    /\ orders = <<"set_holdings">>

InitExec ==
    /\ SPREAD_MA_WINDOW \in Windows
    /\ spread_history \in SeqsOfLen(Spreads, SPREAD_MA_WINDOW - 1)
    /\ cor_hourly_dict = EmptySeries
    /\ cor3m_hourly_data = EmptySeries
    /\ time = <<0, 10, 0>>
    /\ regime_current \in Regimes
    /\ \/ InitPosition
       \/ InitOpenPosition
    /\ InitFields

NextExec == \E s \in Spreads, price \in Prices : DecisionTick(s, price)

SpecExec == InitExec /\ [][NextExec]_vars

\* The series lookup applied to any small series at any tick time.  Each
\* sample's close identifies the sample.
Keys == Days \X SampleHours \X Minutes

SampleClose(k) == 100 * k[1] + 2 * k[2] + k[3] \div 30

RECURSIVE KeySetsUpTo(_)
KeySetsUpTo(n) ==
    IF n = 0 THEN {{}}
    ELSE LET smaller == KeySetsUpTo(n - 1)
         IN  smaller \cup {q \cup {k} : q \in smaller, k \in Keys}

Series == {[k \in ks |-> SampleClose(k)] : ks \in KeySetsUpTo(MaxSamples)}

InitLookup ==
    /\ SPREAD_MA_WINDOW \in {3}
    /\ spread_history = << >>
    /\ cor_hourly_dict \in Series
    /\ cor3m_hourly_data = EmptySeries
    /\ time \in Keys
    /\ regime_current = REGIME_NEUTRAL
    /\ InitPosition
    /\ InitFields

NextLookup == LookupCall

SpecLookup == InitLookup /\ [][NextLookup]_vars

\* The algorithm as the engine runs it: the two series are loaded by
\* initialize(), then on_data is called bar after bar.  Each series holds at
\* most one sample, stamped on the hour.
FeedSeries ==
    {EmptySeries} \cup {[k \in {h} |-> SampleClose(h)] : h \in {k \in Keys : k[3] = 0}}

InitData ==
    /\ SPREAD_MA_WINDOW \in Windows
    /\ spread_history = << >>
    /\ cor_hourly_dict \in FeedSeries
    /\ cor3m_hourly_data \in FeedSeries
    /\ time = <<0, 10, 0>>
    /\ regime_current = REGIME_NEUTRAL
    /\ InitPosition
    /\ InitFields

Next == \E price \in Prices \cup {0} : OnData(price)

Spec == InitData /\ [][Next]_vars

\* The constructed object after a warm-up of SPREAD_MA_WINDOW - 1 spreads
\* (which _update_regime only appends), driven by decision ticks.
InitWarm ==
    /\ SPREAD_MA_WINDOW \in Windows
    /\ spread_history \in SeqsOfLen(Spreads, SPREAD_MA_WINDOW - 1)
    /\ cor_hourly_dict = EmptySeries
    /\ cor3m_hourly_data = EmptySeries
    /\ time = <<0, 10, 0>>
    /\ regime_current = REGIME_NEUTRAL
    /\ InitPosition
    /\ InitFields

SpecWarm == InitWarm /\ [][NextExec]_vars

-----------------------------------------------------------------------------
(* Vocabulary of the properties *)

HasEvent(tag) == \E i \in 1..Len(events) : events[i].tag = tag

Committed == HasEvent("REGIME")

ExitLogged(reason) ==
    \E i \in 1..Len(events) : events[i].tag = "EXIT" /\ events[i].reason = reason

\* timestamp a is at or before timestamp b
TsLeq(a, b) ==
    \/ a[1] < b[1]
    \/ a[1] = b[1] /\ a[2] < b[2]
    \/ a[1] = b[1] /\ a[2] = b[2] /\ a[3] <= b[3]

-----------------------------------------------------------------------------
(* C1: orders sent to the venue alternate set_holdings, liquidate,           *)
(* set_holdings, ... starting with an entry, and a position is open exactly  *)
(* when the last order was an entry: never two entries without an exit       *)
(* between them, never an exit without an open position.                     *)
C1_OnePositionAtATime ==
    /\ \A i \in 1..Len(orders) :
          orders[i] = IF i % 2 = 1 THEN "set_holdings" ELSE "liquidate"
    /\ is_short <=> (Len(orders) % 2 = 1)

\* a position was held through a whole tick on which every entry condition
\* held again, and no second entry was sent
C1_Witness ==
    /\ pc = "on_data"
    /\ is_short
    /\ error = "NONE"
    /\ bars_since_entry >= 2
    /\ regime_current = REGIME_SAFE
    /\ signal_strength_ok(spread, spread_ma, spread_std)
    /\ bars_since_exit >= COOLDOWN_BARS
    /\ Len(orders) = 1

(* C2: a tick takes the position from closed to open only if, after the      *)
(* tick's classifier step, the regime is SAFE, the spread lies more than     *)
(* SIGNAL_STD_THRESHOLD standard deviations below its mean, and              *)
(* bars_since_exit had reached COOLDOWN_BARS.                                *)
C2_EntryOnlyWhenPermitted ==
    [][(~is_short /\ is_short') =>
          /\ regime_current' = REGIME_SAFE
          /\ spread_ma'[1] - spread' * spread_ma'[2] > 0
          /\ (spread_ma'[1] - spread' * spread_ma'[2])
               * (spread_ma'[1] - spread' * spread_ma'[2]) * spread_std'[2]
             > spread_std'[1] * spread_ma'[2] * spread_ma'[2]
          /\ bars_since_exit >= COOLDOWN_BARS]_vars

\* an entry has just been made, after an exit and its cooldown
C2_Witness ==
    /\ pc = "on_data"
    /\ is_short
    /\ bars_since_entry = 1
    /\ orders = <<"set_holdings", "liquidate", "set_holdings">>
    /\ regime_current = REGIME_SAFE

(* C8: with a position open, a tick exits with exactly the first reason that *)
(* holds in the order REGIME_REVOKED, SIGNAL_NORMALIZED, STOP_HIT, and does  *)
(* not exit when none holds.                                                 *)
RevokedHolds == regime_current = REGIME_DANGER

NormalizedHolds ==
    4 * (spread * spread_ma[2] - spread_ma[1])
      * (spread * spread_ma[2] - spread_ma[1]) * spread_std[2]
    < spread_std[1] * spread_ma[2] * spread_ma[2]

\* the stop test uses the entry price of the position open before the tick
StopHolds(entry) == vxx_price > entry + 2

C8_ExitPriority ==
    [][(is_short /\ pc' = "on_data" /\ ticks' = ticks + 1) =>
          /\ RevokedHolds' =>
                (~is_short' /\ ExitLogged("REGIME_REVOKED")')
          /\ (~RevokedHolds' /\ NormalizedHolds') =>
                (~is_short' /\ ExitLogged("SIGNAL_NORMALIZED")')
          /\ (~RevokedHolds' /\ ~NormalizedHolds' /\ StopHolds(entry_price)') =>
                (~is_short' /\ ExitLogged("STOP_HIT")')
          /\ (~RevokedHolds' /\ ~NormalizedHolds' /\ ~StopHolds(entry_price)') =>
                (is_short' /\ ~HasEvent("EXIT")' /\ orders' = orders)
          /\ Cardinality({i \in 1..Len(events') : events'[i].tag = "EXIT"}) <= 1]_vars

\* an exit on a tick where both the normalisation and the stop test held
C8_Witness ==
    /\ pc = "on_data"
    /\ ~is_short
    /\ ExitLogged("SIGNAL_NORMALIZED")
    /\ ~RevokedHolds
    /\ StopHolds(entry_price)

-----------------------------------------------------------------------------
(* C3: a regime commit fires only on a call that completes two consecutive   *)
(* calls on which the same candidate was selected: whenever a call commits,  *)
(* the call before it selected that same candidate.                          *)
C3_CommitNeedsRepeatedCandidate ==
    [][Committed' => (regime_candidate \in Regimes
                      /\ regime_candidate' = regime_candidate)]_vars

(* C4: when the same candidate, different from both regime_current and       *)
(* regime_previous, is selected on two consecutive calls, the second call    *)
(* commits it and regime_current equals that candidate afterwards.           *)
C4_PersistentCandidateCommits ==
    [][(/\ regime_candidate \in Regimes
        /\ regime_candidate' = regime_candidate
        /\ regime_candidate # regime_current
        /\ regime_candidate # regime_previous)
       => (Committed' /\ regime_current' = regime_candidate)]_vars

(* C5: every regime-transition event names two different regimes: a commit   *)
(* always changes the regime.                                                *)
C5_NoNoOpTransition ==
    \A i \in 1..Len(events) :
        events[i].tag = "REGIME" => events[i].old # events[i].new

(* C6: on a call that leaves the rolling statistics defined and on which the *)
(* spread moved by more than 2.5 standard deviations since the previous      *)
(* call, regime_current is DANGER after the call whatever the bar count was, *)
(* regime_bar_count is 1, no candidate is selected and nothing is committed. *)
ShockHolds ==
    /\ Len(spread_history) >= 2
    /\ 4 * (spread - spread_history[Len(spread_history) - 1])
         * (spread - spread_history[Len(spread_history) - 1]) * spread_std[2]
       > 25 * spread_std[1]

C6_ShockForcesDanger ==
    [][(ticks' = ticks + 1 /\ spread_ma' # None /\ ShockHolds') =>
          /\ regime_current' = REGIME_DANGER
          /\ regime_bar_count' = 1
          /\ regime_candidate' = "NONE"
          /\ ~Committed'
          /\ regime_previous' = regime_previous]_vars

\* a shock has just taken the regime to DANGER from a regime without standing
C6_Witness ==
    /\ pc = "update_regime"
    /\ spread_ma # None
    /\ ShockHolds
    /\ HasEvent("SHOCK")
    /\ regime_current = REGIME_DANGER
    /\ regime_previous = REGIME_NEUTRAL
    /\ regime_bar_count = 1

(* C7, as stated: with window 3 the series 0,0,0,10,10 keeps the regime      *)
(* NEUTRAL through the third call, selects DANGER without committing on the  *)
(* fourth, and commits DANGER on the fifth.                                  *)
InScenario == SPREAD_MA_WINDOW = 3 /\ pc = "update_regime"

C7_ScenarioCommitsDanger ==
    InScenario =>
        /\ spread_history \in {<<0>>, <<0, 0>>, <<0, 0, 0>>} =>
              regime_current = REGIME_NEUTRAL
        /\ spread_history \in {<<0>>, <<0, 0>>} => spread_ma = None
        /\ spread_history = <<0, 0, 0, 10>> =>
              /\ regime_candidate = REGIME_DANGER
              /\ regime_current = REGIME_NEUTRAL
              /\ ~Committed
        /\ spread_history = <<0, 0, 0, 10, 10>> =>
              /\ Committed
              /\ regime_current = REGIME_DANGER

(* C7, amended: with window 3 the series 0,0,0,10,10 keeps the regime        *)
(* NEUTRAL through the third call, selects DANGER without committing on the  *)
(* fourth, and on the fifth selects NEUTRAL (10 is within one standard       *)
(* deviation of the mean of 0,10,10), commits nothing and leaves the regime  *)
(* NEUTRAL.                                                                  *)
C7_ScenarioStaysNeutral ==
    InScenario =>
        /\ spread_history \in {<<0>>, <<0, 0>>, <<0, 0, 0>>} =>
              regime_current = REGIME_NEUTRAL
        /\ spread_history \in {<<0>>, <<0, 0>>} => spread_ma = None
        /\ spread_history = <<0, 0, 0, 10>> =>
              /\ regime_candidate = REGIME_DANGER
              /\ regime_current = REGIME_NEUTRAL
              /\ ~Committed
        /\ spread_history = <<0, 0, 0, 10, 10>> =>
              /\ regime_candidate = REGIME_NEUTRAL
              /\ ~Committed
              /\ regime_current = REGIME_NEUTRAL

\* the fifth call of the scenario has been made
C7_Witness == InScenario /\ spread_history = <<0, 0, 0, 10, 10>>

-----------------------------------------------------------------------------
(* C9: the lookup returns None or the close of a sample whose timestamp is   *)
(* at or before the time of the tick, never a later sample.                  *)
C9_NoLookahead ==
    pc = "lookup" =>
        \/ cor_val = None
        \/ \E k \in DOMAIN cor_hourly_dict :
              /\ TsLeq(k, time)
              /\ cor_val = <<cor_hourly_dict[k]>>

(* C10: the lookup returns the close stored under the exact timestamp when   *)
(* that key is present; with no sample on the current day it returns the     *)
(* close of the latest on-the-hour sample among the 10 preceding days, the   *)
(* most recent day first; and it returns None when the current day and the   *)
(* 10 preceding days hold no sample.                                         *)
SamplesOn(day) == {k \in DOMAIN cor_hourly_dict : k[1] = day}

HourlyWithinLookback ==
    {k \in DOMAIN cor_hourly_dict :
        /\ k[3] = 0
        /\ k[1] < time[1]
        /\ k[1] >= time[1] - 10}

C10_LookupResult ==
    pc = "lookup" =>
        /\ time \in DOMAIN cor_hourly_dict => cor_val = <<cor_hourly_dict[time]>>
        /\ (SamplesOn(time[1]) = {} /\ HourlyWithinLookback # {}) =>
              \E k \in HourlyWithinLookback :
                  /\ \A j \in HourlyWithinLookback : TsLeq(j, k)
                  /\ cor_val = <<cor_hourly_dict[k]>>
        /\ (\A k \in DOMAIN cor_hourly_dict :
                k[1] > time[1] \/ k[1] < time[1] - 10) => cor_val = None

\* no sample on the current day, two samples three days before: the later
\* of the two is returned
C10_Witness ==
    /\ pc = "lookup"
    /\ SamplesOn(time[1]) = {}
    /\ DOMAIN cor_hourly_dict = {<<time[1] - 3, 10, 0>>, <<time[1] - 3, 15, 0>>}
    /\ cor_val = <<cor_hourly_dict[<<time[1] - 3, 15, 0>>]>>

-----------------------------------------------------------------------------
(* Vocabulary of the on_data properties *)

\* the last on_data call ran the decision steps
DecisionRan == pc = "on_data"

\* the last on_data call returned on missing correlation data
MissingDataTick == pc = "missing_data"

WarmingUp == Len(spread_history) < SPREAD_MA_WINDOW

(* C11: a decision tick processed while fewer than SPREAD_MA_WINDOW spreads  *)
(* have been collected is a no-op and not an error: no exception is raised,  *)
(* the regime and the position keep their initial values, the statistics     *)
(* stay undefined and no order is sent.                                      *)
C11_WarmUpIsNoOp ==
    (DecisionRan /\ WarmingUp) =>
        /\ error = "NONE"
        /\ regime_current = REGIME_NEUTRAL
        /\ regime_previous = REGIME_NEUTRAL
        /\ regime_bar_count = 0
        /\ spread_ma = None
        /\ spread_std = None
        /\ is_short = FALSE
        /\ trade_count = 0
        /\ orders = << >>


(* C12: a tick on which either correlation value is missing returns early   *)
(* and leaves the trading state unchanged: the spread history, the rolling   *)
(* statistics, the regime fields, the position fields, the trade count and   *)
(* the orders sent are what they were; only last_missing_cor_warning_date     *)
(* may change.                                                               *)
C12_MissingDataFrame ==
    [][MissingDataTick' =>
          UNCHANGED <<spread_history, spread_ma, spread_std, regime_current,
                      regime_previous, regime_bar_count, is_short, entry_price,
                      bars_since_entry, bars_since_exit, trade_count,
                      orders>>]_vars

\* COR1M is available and COR3M is not: the tick warns, records the day and
\* returns
C12_Witness ==
    /\ MissingDataTick
    /\ cor_val # None
    /\ cor3m_val = None
    /\ HasEvent("WARN")
    /\ last_missing_cor_warning_date = current_date(time)

\* an on_data call with a usable price whose lookups left a value missing
NotAvailableTick ==
    /\ ticks' = ticks + 1
    /\ pc' # "no_bar"
    /\ cor_val' = None \/ cor3m_val' = None

(* C13 as stated: on a tick whose lookup returns no value on_data skips the *)
(* decision steps but still advances the bookkeeping counters:               *)
(* bars_since_entry while a position is open, bars_since_exit up to          *)
(* COOLDOWN_BARS while it is closed.                                         *)
C13_MissingTickAdvancesCounters ==
    [][NotAvailableTick =>
          /\ spread_history' = spread_history
          /\ bars_since_entry' =
                IF is_short THEN bars_since_entry + 1 ELSE bars_since_entry
          /\ bars_since_exit' =
                IF ~is_short /\ bars_since_exit < COOLDOWN_BARS
                THEN bars_since_exit + 1 ELSE bars_since_exit]_vars

(* C13 amended: on a tick whose lookup returns no value on_data skips the   *)
(* decision steps and the bookkeeping alike: no spread is appended, no order *)
(* is sent, and bars_since_entry and bars_since_exit keep their values.      *)
C13_MissingTickFreezesCounters ==
    [][NotAvailableTick =>
          /\ MissingDataTick'
          /\ spread_history' = spread_history
          /\ orders' = orders
          /\ error' = "NONE"
          /\ bars_since_entry' = bars_since_entry
          /\ bars_since_exit' = bars_since_exit]_vars

\* three ticks in a row without COR1M: the cooldown counter is still 0
C13_Witness ==
    /\ MissingDataTick
    /\ cor_val = None
    /\ ticks >= 3
    /\ last_missing_cor_warning_date # NoDate
    /\ spread_history = << >>
    /\ bars_since_exit = 0


-----------------------------------------------------------------------------
(* Vocabulary of the position properties *)

\* this step is a tick that opens a position
EntryStep == ~is_short /\ is_short'

\* this step is a tick that closes a position
ExitStep == is_short /\ ~is_short'

\* the last call is a decision tick that ran to its end
CompletedTick == pc = "on_data" /\ error = "NONE"

(* C14: an entry fires only when bars_since_exit has reached COOLDOWN_BARS, *)
(* and after an exit on decision tick t no entry occurs on tick t + 1: the   *)
(* next entry is on tick t + 2 at the earliest.                              *)
C14_CooldownAfterExit ==
    [][EntryStep =>
          /\ bars_since_exit >= COOLDOWN_BARS
          /\ last_exit_tick > 0 =>
                ticks' >= last_exit_tick + COOLDOWN_BARS]_vars

\* an exit on tick t, a refused tick t + 1, an entry on tick t + 2
C14_Witness ==
    /\ is_short
    /\ last_exit_tick > 0
    /\ ticks = last_exit_tick + COOLDOWN_BARS
    /\ bars_since_entry = 1
    /\ orders[Len(orders)] = "set_holdings"
    /\ Len(orders) >= 3


-----------------------------------------------------------------------------
(* Vocabulary of the spread window properties *)

\* the sum of the last n elements of h, taken by index
RECURSIVE SumOfLast(_, _)
SumOfLast(h, n) ==
    IF n = 0 THEN 0 ELSE h[Len(h) - n + 1] + SumOfLast(h, n - 1)

(* C15: spread_ma and spread_std are None until exactly SPREAD_MA_WINDOW     *)
(* spreads have been appended and are defined on that update and on every    *)
(* later one; the mean is taken over exactly the most recent                 *)
(* SPREAD_MA_WINDOW spreads: spread_ma * SPREAD_MA_WINDOW is the sum of the  *)
(* last SPREAD_MA_WINDOW elements of spread_history, the older elements kept *)
(* as slack never contributing.                                              *)
C15_RollingStats ==
    /\ ticks < SPREAD_MA_WINDOW => spread_ma = None /\ spread_std = None
    /\ ticks >= SPREAD_MA_WINDOW =>
          /\ spread_ma # None
          /\ spread_std # None
          /\ spread_ma[1] * SPREAD_MA_WINDOW =
                spread_ma[2] * SumOfLast(spread_history, SPREAD_MA_WINDOW)

\* the buffer holds slack elements and its overall mean differs from
\* spread_ma
C15_Witness ==
    /\ spread_ma # None
    /\ Len(spread_history) > SPREAD_MA_WINDOW
    /\ SeqSum(spread_history) * spread_ma[2] # spread_ma[1] * Len(spread_history)

(* C16: spread_history never holds more than SPREAD_MA_WINDOW + 5 elements: *)
(* each _update_regime call appends the new spread, and only when that       *)
(* makes the length exceed SPREAD_MA_WINDOW + 5 does it evict exactly the    *)
(* oldest element.                                                           *)
C16_BoundedHistory ==
    [][ticks' = ticks + 1 =>
          /\ Len(spread_history) <= SPREAD_MA_WINDOW + HistorySlack
          /\ Len(spread_history') <= SPREAD_MA_WINDOW + HistorySlack
          /\ spread_history' =
                IF Len(spread_history) < SPREAD_MA_WINDOW + HistorySlack
                THEN Append(spread_history, spread')
                ELSE Append(Tail(spread_history), spread')]_vars

\* the buffer is full after an eviction
C16_Witness ==
    /\ Len(spread_history) = SPREAD_MA_WINDOW + HistorySlack
    /\ ticks > SPREAD_MA_WINDOW + HistorySlack


-----------------------------------------------------------------------------
(* Vocabulary of the regime properties *)

\* the events of the state hold a REGIME record from old to new
RegimeEvent(evs, old, new) ==
    \E i \in 1..Len(evs) :
        evs[i].tag = "REGIME" /\ evs[i].old = old /\ evs[i].new = new

\* the last event is an entry refused for the regime alone
BlockedByRegimeOnly ==
    /\ events # NoEvent
    /\ events[Len(events)].tag = "BLOCK"
    /\ events[Len(events)].blocked_by = <<"regime">>

(* C17: on every tick in which _update_regime changes regime_current, by    *)
(* commit or by shock, a REGIME audit event carrying the old and the new     *)
(* regime is emitted.                                                        *)
C17_TransitionsAudited ==
    [][regime_current' # regime_current =>
          RegimeEvent(events', regime_current, regime_current')]_vars

C19_NoPositionInDanger ==
    [][ticks' = ticks + 1 =>
          /\ CompletedTick' => ~(is_short' /\ regime_current' = REGIME_DANGER)
          /\ (is_short /\ regime_current' = REGIME_DANGER) =>
                /\ ~is_short'
                /\ ExitLogged("REGIME_REVOKED")'
                /\ orders' = Append(orders, "liquidate")]_vars

\* a shock moved the regime to DANGER and the open position was liquidated
\* in the same tick
C19_Witness ==
    /\ CompletedTick
    /\ HasEvent("SHOCK")
    /\ ExitLogged("REGIME_REVOKED")
    /\ regime_current = REGIME_DANGER
    /\ ~is_short
    /\ last_exit_tick = ticks

-----------------------------------------------------------------------------
(* C21: bars_since_exit is a saturating counter: it stays within            *)
(* 0..COOLDOWN_BARS, it equals COOLDOWN_BARS whenever a position is open, it *)
(* decreases only on a tick that closes a position, and it is not            *)
(* incremented on a tick during which the position stays open.               *)
C21_SaturatingCooldown ==
    [][ticks' = ticks + 1 =>
          /\ bars_since_exit \in 0..COOLDOWN_BARS
          /\ bars_since_exit' \in 0..COOLDOWN_BARS
          /\ is_short => bars_since_exit = COOLDOWN_BARS
          /\ is_short' => bars_since_exit' = COOLDOWN_BARS
          /\ bars_since_exit' < bars_since_exit => ExitStep
          /\ ExitStep => bars_since_exit' = 1
          /\ (is_short /\ is_short') => bars_since_exit' = bars_since_exit]_vars

\* after an exit the counter has climbed back to COOLDOWN_BARS and a further
\* tick with no position open has left it there
C21_Witness ==
    /\ CompletedTick
    /\ ~is_short
    /\ last_exit_tick > 0
    /\ ticks > last_exit_tick + 1
    /\ bars_since_exit = COOLDOWN_BARS


-----------------------------------------------------------------------------
(* Vocabulary of the blocked-entry properties *)

\* the signal-strength test on the spread and the statistics of the state:
\* spread_ma - spread exceeds one spread_std
SignalHolds ==
    /\ spread_ma[1] - spread * spread_ma[2] > 0
    /\ (spread_ma[1] - spread * spread_ma[2])
         * (spread_ma[1] - spread * spread_ma[2]) * spread_std[2]
       > spread_std[1] * spread_ma[2] * spread_ma[2]

BlockEvents == {i \in 1..Len(events) : events[i].tag = "BLOCK"}

\* the reasons named by the BLOCK events of the state
NamedReasons(i) == {events[i].blocked_by[j] : j \in 1..Len(events[i].blocked_by)}

(* C22: a BLOCK event is emitted, and blocked_entry_count incremented, on   *)
(* exactly those ticks where no position is open, the signal-strength test   *)
(* passes and the entry is refused because regime_current is not SAFE or the *)
(* cooldown has not elapsed; the event names the regime exactly when the     *)
(* regime refuses and the cooldown exactly when the cooldown refuses, so it  *)
(* names at least one reason and never "unknown".                            *)
C22_BlockedEntryAudited ==
    [][(pc' = "on_data" /\ ticks' = ticks + 1) =>
          /\ BlockEvents' # {} <=>
                /\ ~is_short
                /\ SignalHolds'
                /\ regime_current' # REGIME_SAFE \/ bars_since_exit < COOLDOWN_BARS
          /\ blocked_entry_count' =
                blocked_entry_count + Cardinality(BlockEvents')
          /\ Cardinality(BlockEvents') <= 1
          /\ \A i \in BlockEvents' :
                /\ events'[i].reason # "unknown"
                /\ NamedReasons(i)' # {}
                /\ "regime" \in NamedReasons(i)' <=> regime_current' # REGIME_SAFE
                /\ "cooldown_rem" \in NamedReasons(i)' <=>
                      bars_since_exit < COOLDOWN_BARS]_vars

\* a second refusal in a row, this one for the cooldown alone
C22_Witness ==
    /\ CompletedTick
    /\ blocked_entry_count = 2
    /\ \E i \in BlockEvents : events[i].blocked_by = <<"cooldown_rem">>
    /\ regime_current = REGIME_SAFE
    /\ ~is_short


-----------------------------------------------------------------------------
(* Vocabulary of the trade count properties *)

\* the number of exits performed so far
ExitsSoFar == Cardinality({i \in 1..Len(orders) : orders[i] = "liquidate"})

OpenNow == IF is_short THEN 1 ELSE 0

(* C23: trade_count is the number of exits performed so far, plus 1 while a *)
(* position is open; and a tick performs at most one of entry and exit: it   *)
(* sends at most one order, and none when it leaves the position as it was.  *)
C23_TradeCount ==
    [][ticks' = ticks + 1 =>
          /\ trade_count = ExitsSoFar + OpenNow
          /\ trade_count' = ExitsSoFar' + OpenNow'
          /\ Len(orders') <= Len(orders) + 1
          /\ is_short' = is_short => orders' = orders
          /\ EntryStep => orders' = Append(orders, "set_holdings")
          /\ ExitStep => orders' = Append(orders, "liquidate")]_vars

\* the second trade is open after the first was closed
C23_Witness ==
    /\ trade_count = 2
    /\ ExitsSoFar = 1
    /\ is_short
    /\ last_entry_tick > last_exit_tick


-----------------------------------------------------------------------------
(* Vocabulary of the hold duration property *)

ExitEvents == {i \in 1..Len(events) : events[i].tag = "EXIT"}

-----------------------------------------------------------------------------
(* Vocabulary of the stop-loss property *)

\* the fixed stop level of the position: entry_price + STOP_LOSS_MULT * 1.0
FixedStopLevel == entry_price + STOP_LOSS_MULT * 1

=============================================================================
